---- MODULE Spec2Model ----
(***************************************************************************)
(* A model of the easyffmpeg watch-and-transcode daemon.                    *)
(*                                                                         *)
(* The repository holds two entry scripts: src/root/index.js (processQueue  *)
(* drain loop, metadata probe, directory reconcile) and an earlier script,  *)
(* src/unnamed/part_000 (setInterval tick, `working` flag).  The variable   *)
(* `program` says which script the process runs.                            *)
(*                                                                         *)
(* A path is a sequence of tokens: "/" and "." are tokens of their own, a   *)
(* name is one token, so that String.includes, String.replace,              *)
(* path.dirname and path.extname are computed on the sequence.              *)
(***************************************************************************)
EXTENDS Integers, Sequences, FiniteSets, TLC

VARIABLES
    program,            \* "index" (src/root/index.js) or "legacy" (src/unnamed/part_000)
    deleteSourceFile,   \* config.deleteSourceFile / deleteSourceFile
    deleteMiscFiles,    \* config.deleteMiscFiles / deleteMiscFiles
    videoSkipReencode,  \* config.videoSkipReencode
    folderCleanDepth,   \* config.folderCleanDepth
    media,              \* what ffprobe can read from each file (the file's content)
    dirs,               \* directories that exist
    files,              \* regular files that exist
    handler,            \* position of the 'add' callback of each path
    queue,              \* the transcode queue
    processing,         \* index.js: let processing
    working,            \* part_000: let working
    job,                \* position of the encode job of each path
    cleanups,           \* cleanup() passes started and not yet finished
    log,                \* history: the <<path, event>> pairs that have happened
    crashed,            \* an exception or rejection escaped a callback
    faults,             \* injected I/O failures so far
    phase,              \* "daemon", or "build"/"reconcile" for the reconcile runs
    removed             \* reconcile runs: the directories each cleanup() removed

vars == <<program, deleteSourceFile, deleteMiscFiles, videoSkipReencode,
          folderCleanDepth, media, dirs, files, handler, queue, processing,
          working, job, cleanups, log, crashed, faults, phase, removed>>

(***************************************************************************)
(* Bounds of the model.                                                     *)
(***************************************************************************)
MaxFaults == 1
MaxEvents == 2
MaxTreeDepth == 3
MaxDirs == 4
MaxTreeFiles == 1
MaxCleanDepth == 2

(***************************************************************************)
(* Strings as token sequences.                                              *)
(***************************************************************************)
\* String.prototype.includes
Includes(s, sub) ==
    \E i \in 0..(Len(s) - Len(sub)) : SubSeq(s, i + 1, i + Len(sub)) = sub

\* String.prototype.replace with a string pattern: the first occurrence only
Replace(s, from, to) ==
    IF Includes(s, from)
    THEN LET i == CHOOSE k \in 0..(Len(s) - Len(from)) :
                    /\ SubSeq(s, k + 1, k + Len(from)) = from
                    /\ \A j \in 0..(k - 1) : SubSeq(s, j + 1, j + Len(from)) # from
         IN  SubSeq(s, 1, i) \o to \o SubSeq(s, i + Len(from) + 1, Len(s))
    ELSE s

LastIndexOf(s, tok) ==
    IF \E i \in 1..Len(s) : s[i] = tok
    THEN CHOOSE i \in 1..Len(s) : s[i] = tok /\ \A j \in (i + 1)..Len(s) : s[j] # tok
    ELSE 0

\* path.dirname of an absolute path
Dirname(p) ==
    LET i == LastIndexOf(p, "/")
    IN  IF i <= 1 THEN <<"/">> ELSE SubSeq(p, 1, i - 1)

Basename(p) == SubSeq(p, LastIndexOf(p, "/") + 1, Len(p))

\* path.extname: from the last "." of the basename, "" when there is none or
\* when the basename starts with it
Extname(p) ==
    LET b == Basename(p)
        i == LastIndexOf(b, ".")
    IN  IF i <= 1 THEN <<>> ELSE SubSeq(b, i, Len(b))

LowerToken(t) ==
    CASE t = "MKV" -> "mkv"
      [] t = "AV1" -> "av1"
      [] OTHER -> t

\* String.prototype.toLowerCase
ToLowerCase(s) == [i \in 1..Len(s) |-> LowerToken(s[i])]

(***************************************************************************)
(* Configuration (index.js 23-42, part_000 6-22).                           *)
(***************************************************************************)
WatchDir == <<"/", "watch">>
TempDir == <<"/", "temp">>
CompleteDir == <<"/", "ready">>
VideoCodec == <<"av1">>
VideoSampleSeconds == 300

videoExtensions == {<<".", "mp4">>, <<".", "mkv">>, <<".", "m4v">>}
subtitleExtensions == {<<".", "srt">>, <<".", "ass">>, <<".", "sub">>,
                       <<".", "ssa">>, <<".", "smi">>, <<".", "vtt">>}

(***************************************************************************)
(* The file system.                                                         *)
(***************************************************************************)
\* fs.mkdir(d, {recursive: true}) creates d and its missing ancestors
DirsUpTo(d) ==
    {SubSeq(d, 1, j) : j \in {k \in 2..Len(d) : k = Len(d) \/ d[k + 1] = "/"}}

\* fs.readdir(d): the entries of d
Entries(ds, fl, d) == {x \in ds \cup fl : Len(x) > Len(d) /\ Dirname(x) = d}

\* depth of directory d below root
Depth(root, d) ==
    Cardinality({i \in 1..Len(d) : d[i] = "/"})
        - Cardinality({i \in 1..Len(root) : root[i] = "/"})

\* the order in which readdir lists entries: by name
NameOrder == <<"f", "mkv", "mp4", "MKV", "srt", "txt", "a", "b", "show", "tmp",
               "watch", "temp", "ready">>
Rank(x) == CHOOSE i \in 1..Len(NameOrder) : NameOrder[i] = x[Len(x)]

RECURSIVE Listing(_)
Listing(S) ==
    IF S = {} THEN <<>>
    ELSE LET m == CHOOSE x \in S : \A y \in S : Rank(x) <= Rank(y)
         IN  <<m>> \o Listing(S \ {m})

(***************************************************************************)
(* removeEmptyDirectories (index.js 66-95).  The result is the set of       *)
(* directories left.  An exception anywhere in the body is caught by the    *)
(* catch of the call in which it is thrown, which ends that call.           *)
(***************************************************************************)
\* line 77: subEntries.length === 0 && depth >= config.folderCleanDepth
ChildRemovable(ds, fl, entryPath, depth, cleanDepth) ==
    Entries(ds, fl, entryPath) = {} /\ depth >= cleanDepth

\* line 88: isEmpty && depth >= config.folderCleanDepth
SelfRemovable(isEmpty, depth, cleanDepth) ==
    isEmpty /\ depth >= cleanDepth

\* fs.rmdir: removes an empty directory, throws on any other
Rmdir(ds, fl, d) ==
    IF d \in ds /\ Entries(ds, fl, d) = {} THEN ds \ {d} ELSE ds

RECURSIVE removeEmptyDirectories(_, _, _, _, _), removeLoop(_, _, _, _, _, _, _)
removeEmptyDirectories(ds, fl, dirPath, depth, cleanDepth) ==
    IF dirPath \notin ds
    THEN ds                                      \* readdir throws: caught, line 92
    ELSE LET r == removeLoop(ds, fl, dirPath, depth, cleanDepth,
                             Listing(Entries(ds, fl, dirPath)), TRUE)
         IN  IF r.threw THEN r.ds
             ELSE IF SelfRemovable(r.isEmpty, depth, cleanDepth)
                  THEN Rmdir(r.ds, fl, dirPath)
                  ELSE r.ds

\* the for loop of lines 71-86 over the entries still to visit
removeLoop(ds, fl, dirPath, depth, cleanDepth, entries, isEmpty) ==
    IF entries = <<>>
    THEN [ds |-> ds, threw |-> FALSE, isEmpty |-> isEmpty]
    ELSE LET entryPath == Head(entries) IN
         IF entryPath \notin ds                  \* entry.isDirectory() is false
         THEN removeLoop(ds, fl, dirPath, depth, cleanDepth, Tail(entries), FALSE)
         ELSE LET ds1 == removeEmptyDirectories(ds, fl, entryPath, depth + 1, cleanDepth) IN
              IF entryPath \notin ds1
              THEN \* line 76: readdir of a directory the recursive call removed
                   \* throws ENOENT, which ends the loop
                   [ds |-> ds1, threw |-> TRUE, isEmpty |-> isEmpty]
              ELSE IF ChildRemovable(ds1, fl, entryPath, depth, cleanDepth)
                   THEN removeLoop(Rmdir(ds1, fl, entryPath), fl, dirPath, depth,
                                   cleanDepth, Tail(entries), isEmpty)
                   ELSE removeLoop(ds1, fl, dirPath, depth, cleanDepth,
                                   Tail(entries), FALSE)

\* cleanup (index.js 144-149): the directories left after one pass
cleanup(ds, fl, cleanDepth) ==
    IF cleanDepth >= 0
    THEN removeEmptyDirectories(
             removeEmptyDirectories(ds, fl, WatchDir, 0, cleanDepth),
             fl, TempDir, 0, cleanDepth)
    ELSE ds

(***************************************************************************)
(* The paths the watcher can report, and what ffprobe reads from them.      *)
(***************************************************************************)
V1 == <<"/", "watch", "/", "show", "/", "ep1", ".", "mkv">>
V2 == <<"/", "watch", "/", "show", "/", "ep2", ".", "mp4">>
V3 == <<"/", "watch", "/", "show", "/", "ep3", ".", "MKV">>
S1 == <<"/", "watch", "/", "show", "/", "ep1", ".", "srt">>
W1 == <<"/", "watch", "/", ".", "tmp", "/", "partial", ".", "mkv">>
Paths == {V1, V2, V3, S1, W1}

\* ffprobe's answer: ok = FALSE is the error callback (unreadable or corrupt)
ProbeError == [ok |-> FALSE, duration |-> 0, video |-> FALSE, codec |-> <<>>]
Plain == [ok |-> TRUE, duration |-> 300, video |-> TRUE, codec |-> <<"h264">>]
MediaKinds ==
    {ProbeError}
    \cup {[ok |-> TRUE, duration |-> d, video |-> TRUE, codec |-> c] :
            d \in {299, 300}, c \in {<<"av1">>, <<"h264">>}}

NewPath(p) == Replace(p, WatchDir, CompleteDir)
TempPath(p) == Replace(p, WatchDir, TempDir)

\* index.js 303-305
isWorkFile(filepath) ==
    \/ Includes(filepath, <<"/", ".">>)
    \/ Includes(filepath, <<".", "queued">>)
    \/ Includes(filepath, <<"_UNPACK_">>)

\* isVideoFile taking every extension for a video extension
isVideoFileAny(extension) == TRUE

\* index.js 308-310
isVideoFile(extension) == extension \in videoExtensions

\* index.js 313-315
isSubtitleFile(extension) == extension \in subtitleExtensions

\* detectSample never taking a video for a sample
detectSampleNever(md) == FALSE

\* detectSample's verdict on ffprobe's answer (index.js 127-141): an error is
\* caught and gives false
detectSample(md) == md.ok /\ VideoSampleSeconds > md.duration

\* isTargetCodec never recognising the target codec
isTargetCodecNever(md) == FALSE

\* isTargetCodec's verdict on ffprobe's answer (index.js 108-124)
isTargetCodec(md) ==
    md.ok /\ md.video /\ Includes(VideoCodec, ToLowerCase(md.codec))

\* what an ffprobe of p can answer now, with the injected failure if any
ProbeAnswers(p) ==
    (IF p \in files
     THEN {[md |-> media[p], fault |-> 0]}
     ELSE {[md |-> ProbeError, fault |-> 0]})
    \cup (IF p \in files /\ media[p].ok /\ faults < MaxFaults
          THEN {[md |-> ProbeError, fault |-> 1]}
          ELSE {})

(***************************************************************************)
(* processQueue and addToQueue (index.js 152-173).                          *)
(***************************************************************************)
\* QueueGate without the test of the processing flag
QueueGateNoFlag(q) == q = <<>>

\* line 153: if (processing || queue.length === 0) return
QueueGate(q) == processing \/ q = <<>>

\* Dispatch taking the path at the tail of the queue (pop instead of shift)
DispatchLast(q, j, l) ==
    /\ queue' = SubSeq(q, 1, Len(q) - 1)
    /\ job' = [j EXCEPT ![q[Len(q)]] = "mkdirNew"]
    /\ log' = l \cup {<<q[Len(q)], "dispatch">>}

\* lines 158-160: shift the head and call processFile, which runs to its
\* first await (the mkdir of line 266)
Dispatch(q, j, l) ==
    /\ queue' = Tail(q)
    /\ job' = [j EXCEPT ![Head(q)] = "mkdirNew"]
    /\ log' = l \cup {<<Head(q), "dispatch">>}

processQueue(q, l) ==
    IF QueueGate(q)
    THEN /\ queue' = q
         /\ log' = l
         /\ UNCHANGED <<job, processing>>
    ELSE /\ processing' = TRUE
         /\ Dispatch(q, job, l)

\* addToQueue without the processQueue call of line 172
addToQueueNoDrain(filepath, l) ==
    /\ queue' = Append(queue, filepath)
    /\ log' = l \cup {<<filepath, "enqueue">>}
    /\ UNCHANGED <<job, processing>>

\* addToQueue that pushes only once the running job has settled
addToQueueWhenIdle(filepath, l) ==
    /\ ~processing
    /\ processQueue(Append(queue, filepath), l \cup {<<filepath, "enqueue">>})

\* lines 170-173: push, then processQueue, which returns at once while a
\* drain loop is active
addToQueue(filepath, l) ==
    processQueue(Append(queue, filepath), l \cup {<<filepath, "enqueue">>})

(***************************************************************************)
(* handleFileAdd (index.js 318-370), one action per segment between awaits. *)
(* Every await is inside the try of line 319: a failure ends the handler.   *)
(***************************************************************************)
Running == phase = "daemon" /\ ~crashed

\* Route without the detectSample call of line 334
RouteSkipSample(p) ==
    LET extension == ToLowerCase(Extname(p)) IN
    IF isVideoFile(extension) THEN "isTargetCodec"
    ELSE IF isSubtitleFile(extension) THEN "copy"
    ELSE IF deleteMiscFiles THEN "unlink"
    ELSE "done"

\* the branch taken once the mkdir of line 329 has succeeded (lines 331-366)
Route(p) ==
    LET extension == ToLowerCase(Extname(p)) IN
    IF isVideoFile(extension) THEN "detectSample"
    ELSE IF isSubtitleFile(extension) THEN "copy"
    ELSE IF deleteMiscFiles THEN "unlink"
    ELSE "done"

\* lines 318-331: the work-file test, chmodRecursive (whose errors are
\* swallowed by its own catch, lines 49-63, and which changes no modelled
\* state) and the mkdir of line 329.  Nothing is read or written before the
\* mkdir settles, so the callback is taken at that moment.
HandleFileAdd(p) ==
    /\ Running /\ program = "index"
    /\ handler[p] = "none"
    /\ Cardinality({x \in Paths : handler[x] # "none"}) < MaxEvents
    /\ IF isWorkFile(p)
       THEN /\ handler' = [handler EXCEPT ![p] = "done"]
            /\ log' = log \cup {<<p, "ignored">>}
            /\ UNCHANGED <<dirs, faults>>
       ELSE \/ /\ dirs' = dirs \cup DirsUpTo(Dirname(NewPath(p)))
               /\ handler' = [handler EXCEPT ![p] = Route(p)]
               /\ log' = log \cup {<<p, "mkdir">>}
               /\ UNCHANGED faults
            \/ /\ faults < MaxFaults
               /\ faults' = faults + 1
               /\ handler' = [handler EXCEPT ![p] = "done"]
               /\ log' = log \cup {<<p, "mkdirFailed">>}
               /\ UNCHANGED dirs
    /\ UNCHANGED <<program, deleteSourceFile, deleteMiscFiles, videoSkipReencode,
                   folderCleanDepth, media, files, queue, processing, working,
                   job, cleanups, crashed, phase, removed>>

\* lines 334-339 and 350: ffprobe answers detectSample
HandleDetectSample(p) ==
    /\ Running /\ program = "index"
    /\ handler[p] = "detectSample"
    /\ \E a \in ProbeAnswers(p) :
         LET l == log \cup {<<p, "probeSample">>}
                      \cup (IF a.md.ok THEN {} ELSE {<<p, "probeSampleFailed">>})
         IN  /\ faults' = faults + a.fault
             /\ IF detectSample(a.md)
                THEN /\ handler' = [handler EXCEPT ![p] = "done"]
                     /\ log' = l \cup {<<p, "sample">>}
                     /\ UNCHANGED <<queue, job, processing>>
                ELSE IF videoSkipReencode
                THEN /\ handler' = [handler EXCEPT ![p] = "isTargetCodec"]
                     /\ log' = l
                     /\ UNCHANGED <<queue, job, processing>>
                ELSE /\ handler' = [handler EXCEPT ![p] = "done"]
                     /\ addToQueue(p, l)
    /\ UNCHANGED <<program, deleteSourceFile, deleteMiscFiles, videoSkipReencode,
                   folderCleanDepth, media, dirs, files, working, cleanups,
                   crashed, phase, removed>>

\* lines 339-350: ffprobe answers isTargetCodec
HandleIsTargetCodec(p) ==
    /\ Running /\ program = "index"
    /\ handler[p] = "isTargetCodec"
    /\ \E a \in ProbeAnswers(p) :
         LET l == log \cup {<<p, "probeCodec">>}
                      \cup (IF a.md.ok THEN {} ELSE {<<p, "probeCodecFailed">>})
         IN  /\ faults' = faults + a.fault
             /\ IF isTargetCodec(a.md)
                THEN /\ handler' = [handler EXCEPT ![p] = "copy"]
                     /\ log' = l \cup {<<p, "target">>}
                     /\ UNCHANGED <<queue, job, processing>>
                ELSE /\ handler' = [handler EXCEPT ![p] = "done"]
                     /\ addToQueue(p, l)
    /\ UNCHANGED <<program, deleteSourceFile, deleteMiscFiles, videoSkipReencode,
                   folderCleanDepth, media, dirs, files, working, cleanups,
                   crashed, phase, removed>>

\* lines 341 and 353: fs.copyFile(filepath, newpath); a failure is caught by
\* the inner catch (lines 344, 356)
HandleCopy(p) ==
    /\ Running /\ program = "index"
    /\ handler[p] = "copy"
    /\ \/ /\ p \in files
          /\ files' = files \cup {NewPath(p)}
          /\ handler' = [handler EXCEPT ![p] = "unlink"]
          /\ log' = log \cup {<<p, "copy">>}
          /\ UNCHANGED faults
       \/ /\ p \notin files \/ faults < MaxFaults
          /\ faults' = IF p \in files THEN faults + 1 ELSE faults
          /\ handler' = [handler EXCEPT ![p] = "done"]
          /\ log' = log \cup {<<p, "copyFailed">>}
          /\ UNCHANGED files
    /\ UNCHANGED <<program, deleteSourceFile, deleteMiscFiles, videoSkipReencode,
                   folderCleanDepth, media, dirs, queue, processing, working,
                   job, cleanups, crashed, phase, removed>>

\* lines 342, 354 and 361: fs.unlink(filepath)
HandleUnlink(p) ==
    /\ Running /\ program = "index"
    /\ handler[p] = "unlink"
    /\ \/ /\ p \in files
          /\ files' = files \ {p}
          /\ log' = log \cup {<<p, "unlink">>}
          /\ UNCHANGED faults
       \/ /\ p \notin files \/ faults < MaxFaults
          /\ faults' = IF p \in files THEN faults + 1 ELSE faults
          /\ log' = log \cup {<<p, "unlinkFailed">>}
          /\ UNCHANGED files
    /\ handler' = [handler EXCEPT ![p] = "done"]
    /\ UNCHANGED <<program, deleteSourceFile, deleteMiscFiles, videoSkipReencode,
                   folderCleanDepth, media, dirs, queue, processing, working,
                   job, cleanups, crashed, phase, removed>>

(***************************************************************************)
(* processFile (index.js 260-300) and the drain loop that awaits it.        *)
(***************************************************************************)
\* lines 285-286: cleanup() is started and not awaited, then resolve()
EndFinish(p, l) ==
    /\ job' = [job EXCEPT ![p] = "resumed"]
    /\ cleanups' = IF folderCleanDepth >= 0 THEN cleanups + 1 ELSE cleanups
    /\ log' = l \cup {<<p, "resolved">>}

\* ErrorRequeue putting the failed path at the head of the queue (unshift)
ErrorRequeueFront(q, p) == <<p>> \o q

\* line 290: queue.push(filepath)
ErrorRequeue(q, p) == Append(q, p)

\* line 266; a failure rejects processFile, which line 161 catches
ProcessFileMkdirNew(p) ==
    /\ Running /\ program = "index"
    /\ job[p] = "mkdirNew"
    /\ \/ /\ dirs' = dirs \cup DirsUpTo(Dirname(NewPath(p)))
          /\ job' = [job EXCEPT ![p] = "mkdirTemp"]
          /\ UNCHANGED <<faults, log>>
       \/ /\ faults < MaxFaults
          /\ faults' = faults + 1
          /\ job' = [job EXCEPT ![p] = "resumed"]
          /\ log' = log \cup {<<p, "jobMkdirFailed">>}
          /\ UNCHANGED dirs
    /\ UNCHANGED <<program, deleteSourceFile, deleteMiscFiles, videoSkipReencode,
                   folderCleanDepth, media, files, handler, queue, processing,
                   working, cleanups, crashed, phase, removed>>

\* lines 267-298: the scratch directory, then the encoder is started
ProcessFileMkdirTemp(p) ==
    /\ Running /\ program = "index"
    /\ job[p] = "mkdirTemp"
    /\ \/ /\ dirs' = dirs \cup DirsUpTo(Dirname(TempPath(p)))
          /\ job' = [job EXCEPT ![p] = "running"]
          /\ log' = log \cup {<<p, "run">>}
          /\ UNCHANGED faults
       \/ /\ faults < MaxFaults
          /\ faults' = faults + 1
          /\ job' = [job EXCEPT ![p] = "resumed"]
          /\ log' = log \cup {<<p, "jobMkdirFailed">>}
          /\ UNCHANGED dirs
    /\ UNCHANGED <<program, deleteSourceFile, deleteMiscFiles, videoSkipReencode,
                   folderCleanDepth, media, files, handler, queue, processing,
                   working, cleanups, crashed, phase, removed>>

\* the encoder's 'end' event (line 272): it has read the source and written
\* the output under the scratch root; the callback runs to the await of line 275
EncodeEnd(p) ==
    /\ Running /\ program = "index"
    /\ job[p] = "running"
    /\ p \in files /\ Dirname(TempPath(p)) \in dirs
    /\ files' = files \cup {TempPath(p)}
    /\ job' = [job EXCEPT ![p] = "copy"]
    /\ log' = log \cup {<<p, "end">>}
    /\ UNCHANGED <<program, deleteSourceFile, deleteMiscFiles, videoSkipReencode,
                   folderCleanDepth, media, dirs, handler, queue, processing,
                   working, cleanups, crashed, faults, phase, removed>>

\* the encoder's 'error' event (lines 288-292)
EncodeError(p) ==
    /\ Running /\ program = "index"
    /\ job[p] = "running"
    /\ queue' = ErrorRequeue(queue, p)
    /\ job' = [job EXCEPT ![p] = "resumed"]
    /\ UNCHANGED <<program, deleteSourceFile, deleteMiscFiles, videoSkipReencode,
                   folderCleanDepth, media, dirs, files, handler, processing,
                   working, cleanups, log, crashed, faults, phase, removed>>

\* line 275: fs.copyFile(temppath, newpath); a failure goes to the catch of
\* line 282 and on to lines 285-286
EndCopy(p) ==
    /\ Running /\ program = "index"
    /\ job[p] = "copy"
    /\ \/ /\ TempPath(p) \in files
          /\ files' = files \cup {NewPath(p)}
          /\ job' = [job EXCEPT ![p] = "unlinkTemp"]
          /\ log' = log \cup {<<p, "jobCopy">>}
          /\ UNCHANGED <<faults, cleanups>>
       \/ /\ TempPath(p) \notin files \/ faults < MaxFaults
          /\ faults' = IF TempPath(p) \in files THEN faults + 1 ELSE faults
          /\ EndFinish(p, log \cup {<<p, "jobCopyFailed">>})
          /\ UNCHANGED files
    /\ UNCHANGED <<program, deleteSourceFile, deleteMiscFiles, videoSkipReencode,
                   folderCleanDepth, media, dirs, handler, queue, processing,
                   working, crashed, phase, removed>>

\* EndUnlinkTemp with a catch that pushes the path back onto the queue
EndUnlinkTempRequeue(p) ==
    /\ Running /\ program = "index"
    /\ job[p] = "unlinkTemp"
    /\ \/ /\ TempPath(p) \in files
          /\ files' = files \ {TempPath(p)}
          /\ UNCHANGED <<faults, queue>>
          /\ IF deleteSourceFile
             THEN /\ job' = [job EXCEPT ![p] = "unlinkSource"]
                  /\ log' = log \cup {<<p, "jobUnlinkTemp">>}
                  /\ UNCHANGED cleanups
             ELSE EndFinish(p, log \cup {<<p, "jobUnlinkTemp">>})
       \/ /\ TempPath(p) \notin files \/ faults < MaxFaults
          /\ faults' = IF TempPath(p) \in files THEN faults + 1 ELSE faults
          /\ queue' = Append(queue, p)
          /\ EndFinish(p, log \cup {<<p, "jobUnlinkTempFailed">>})
          /\ UNCHANGED files
    /\ UNCHANGED <<program, deleteSourceFile, deleteMiscFiles, videoSkipReencode,
                   folderCleanDepth, media, dirs, handler, processing,
                   working, crashed, phase, removed>>

\* lines 276-278: fs.unlink(temppath), then the test of deleteSourceFile
EndUnlinkTemp(p) ==
    /\ Running /\ program = "index"
    /\ job[p] = "unlinkTemp"
    /\ \/ /\ TempPath(p) \in files
          /\ files' = files \ {TempPath(p)}
          /\ UNCHANGED faults
          /\ IF deleteSourceFile
             THEN /\ job' = [job EXCEPT ![p] = "unlinkSource"]
                  /\ log' = log \cup {<<p, "jobUnlinkTemp">>}
                  /\ UNCHANGED cleanups
             ELSE EndFinish(p, log \cup {<<p, "jobUnlinkTemp">>})
       \/ /\ TempPath(p) \notin files \/ faults < MaxFaults
          /\ faults' = IF TempPath(p) \in files THEN faults + 1 ELSE faults
          /\ EndFinish(p, log \cup {<<p, "jobUnlinkTempFailed">>})
          /\ UNCHANGED files
    /\ UNCHANGED <<program, deleteSourceFile, deleteMiscFiles, videoSkipReencode,
                   folderCleanDepth, media, dirs, handler, queue, processing,
                   working, crashed, phase, removed>>

\* line 279: fs.unlink(filepath)
EndUnlinkSource(p) ==
    /\ Running /\ program = "index"
    /\ job[p] = "unlinkSource"
    /\ \/ /\ p \in files
          /\ files' = files \ {p}
          /\ EndFinish(p, log \cup {<<p, "jobUnlinkSource">>})
          /\ UNCHANGED faults
       \/ /\ p \notin files \/ faults < MaxFaults
          /\ faults' = IF p \in files THEN faults + 1 ELSE faults
          /\ EndFinish(p, log \cup {<<p, "jobUnlinkSourceFailed">>})
          /\ UNCHANGED files
    /\ UNCHANGED <<program, deleteSourceFile, deleteMiscFiles, videoSkipReencode,
                   folderCleanDepth, media, dirs, handler, queue, processing,
                   working, crashed, phase, removed>>

\* ProcessQueueResume without line 166: the flag stays set when the loop ends
ProcessQueueResumeKeepsFlag(p) ==
    /\ Running /\ program = "index"
    /\ job[p] = "resumed"
    /\ IF queue # <<>>
       THEN Dispatch(queue, [job EXCEPT ![p] = "none"], log)
       ELSE /\ job' = [job EXCEPT ![p] = "none"]
            /\ UNCHANGED <<queue, log>>
    /\ UNCHANGED <<program, deleteSourceFile, deleteMiscFiles, videoSkipReencode,
                   folderCleanDepth, media, dirs, files, handler, working,
                   processing, cleanups, crashed, faults, phase, removed>>

\* lines 157-166: `await processFile` has settled; the loop tests the queue
\* again and either takes the next path or clears the flag
ProcessQueueResume(p) ==
    /\ Running /\ program = "index"
    /\ job[p] = "resumed"
    /\ IF queue # <<>>
       THEN /\ Dispatch(queue, [job EXCEPT ![p] = "none"], log)
            /\ UNCHANGED processing
       ELSE /\ processing' = FALSE
            /\ job' = [job EXCEPT ![p] = "none"]
            /\ UNCHANGED <<queue, log>>
    /\ UNCHANGED <<program, deleteSourceFile, deleteMiscFiles, videoSkipReencode,
                   folderCleanDepth, media, dirs, files, handler, working,
                   cleanups, crashed, faults, phase, removed>>

\* one pass of cleanup() (lines 144-149, started at lines 285 and 373): both
\* roots are reconciled in one step
CleanupPass ==
    /\ Running /\ program = "index"
    /\ cleanups > 0
    /\ cleanups' = cleanups - 1
    /\ dirs' = cleanup(dirs, files, folderCleanDepth)
    /\ UNCHANGED <<program, deleteSourceFile, deleteMiscFiles, videoSkipReencode,
                   folderCleanDepth, media, files, handler, queue, processing,
                   working, job, log, crashed, faults, phase, removed>>

(***************************************************************************)
(* The earlier script, src/unnamed/part_000.                                *)
(***************************************************************************)
\* lines 295-298: the 'add' callback computes the two paths and awaits the
\* first mkdir
LegacyAdd(p) ==
    /\ Running /\ program = "legacy"
    /\ handler[p] = "none"
    /\ Cardinality({x \in Paths : handler[x] # "none"}) < MaxEvents
    /\ handler' = [handler EXCEPT ![p] = "mkdir"]
    /\ UNCHANGED <<program, deleteSourceFile, deleteMiscFiles, videoSkipReencode,
                   folderCleanDepth, media, dirs, files, queue, processing, working,
                   job, cleanups, log, crashed, faults, phase, removed>>

\* line 298: no try surrounds it, so a failure rejects the async callback
LegacyMkdirNew(p) ==
    /\ Running /\ program = "legacy"
    /\ handler[p] = "mkdir"
    /\ \/ /\ dirs' = dirs \cup DirsUpTo(Dirname(NewPath(p)))
          /\ handler' = [handler EXCEPT ![p] = "mkdirTemp"]
          /\ log' = log \cup {<<p, "mkdir">>}
          /\ UNCHANGED <<faults, crashed>>
       \/ /\ faults < MaxFaults
          /\ faults' = faults + 1
          /\ handler' = [handler EXCEPT ![p] = "done"]
          /\ log' = log \cup {<<p, "mkdirFailed">>}
          /\ crashed' = TRUE
          /\ UNCHANGED dirs
    /\ UNCHANGED <<program, deleteSourceFile, deleteMiscFiles, videoSkipReencode,
                   folderCleanDepth, media, files, queue, processing, working,
                   job, cleanups, phase, removed>>

\* the branch of lines 301-325 taken once both directories exist; the
\* extension is compared as it is written
LegacyRoute(p) ==
    LET extension == Extname(p) IN
    IF isWorkFile(p) THEN "done"
    ELSE IF extension \in videoExtensions THEN "push"
    ELSE IF extension \in subtitleExtensions THEN "copy"
    ELSE IF deleteMiscFiles THEN "unlink"
    ELSE "done"

\* lines 299-309
LegacyMkdirTemp(p) ==
    /\ Running /\ program = "legacy"
    /\ handler[p] = "mkdirTemp"
    /\ \/ /\ dirs' = dirs \cup DirsUpTo(Dirname(TempPath(p)))
          /\ UNCHANGED <<faults, crashed>>
          /\ IF LegacyRoute(p) = "push"
             THEN /\ queue' = Append(queue, p)
                  /\ handler' = [handler EXCEPT ![p] = "done"]
                  /\ log' = log \cup {<<p, "mkdirTemp">>, <<p, "enqueue">>}
             ELSE /\ handler' = [handler EXCEPT ![p] = LegacyRoute(p)]
                  /\ log' = log \cup {<<p, "mkdirTemp">>}
                  /\ UNCHANGED queue
       \/ /\ faults < MaxFaults
          /\ faults' = faults + 1
          /\ handler' = [handler EXCEPT ![p] = "done"]
          /\ log' = log \cup {<<p, "mkdirFailed">>}
          /\ crashed' = TRUE
          /\ UNCHANGED <<dirs, queue>>
    /\ UNCHANGED <<program, deleteSourceFile, deleteMiscFiles, videoSkipReencode,
                   folderCleanDepth, media, files, processing, working,
                   job, cleanups, phase, removed>>

\* line 312, inside the try of line 311
LegacyCopy(p) ==
    /\ Running /\ program = "legacy"
    /\ handler[p] = "copy"
    /\ \/ /\ p \in files
          /\ files' = files \cup {NewPath(p)}
          /\ handler' = [handler EXCEPT ![p] = "unlink"]
          /\ log' = log \cup {<<p, "copy">>}
          /\ UNCHANGED faults
       \/ /\ p \notin files \/ faults < MaxFaults
          /\ faults' = IF p \in files THEN faults + 1 ELSE faults
          /\ handler' = [handler EXCEPT ![p] = "done"]
          /\ log' = log \cup {<<p, "copyFailed">>}
          /\ UNCHANGED files
    /\ UNCHANGED <<program, deleteSourceFile, deleteMiscFiles, videoSkipReencode,
                   folderCleanDepth, media, dirs, queue, processing, working,
                   job, cleanups, crashed, phase, removed>>

\* lines 313 and 320
LegacyUnlink(p) ==
    /\ Running /\ program = "legacy"
    /\ handler[p] = "unlink"
    /\ \/ /\ p \in files
          /\ files' = files \ {p}
          /\ log' = log \cup {<<p, "unlink">>}
          /\ UNCHANGED faults
       \/ /\ p \notin files \/ faults < MaxFaults
          /\ faults' = IF p \in files THEN faults + 1 ELSE faults
          /\ log' = log \cup {<<p, "unlinkFailed">>}
          /\ UNCHANGED files
    /\ handler' = [handler EXCEPT ![p] = "done"]
    /\ UNCHANGED <<program, deleteSourceFile, deleteMiscFiles, videoSkipReencode,
                   folderCleanDepth, media, dirs, queue, processing, working,
                   job, cleanups, crashed, phase, removed>>

\* lines 68-74: the tick does nothing while working or when the queue is empty
TickGate == working \/ queue = <<>>

\* lines 67-120: a tick that takes a path and starts the encoder
LegacyTick ==
    /\ Running /\ program = "legacy"
    /\ ~TickGate
    /\ queue' = Tail(queue)
    /\ working' = TRUE
    /\ job' = [job EXCEPT ![Head(queue)] = "running"]
    /\ log' = log \cup {<<Head(queue), "dispatch">>, <<Head(queue), "run">>}
    /\ UNCHANGED <<program, deleteSourceFile, deleteMiscFiles, videoSkipReencode,
                   folderCleanDepth, media, dirs, files, handler, processing,
                   cleanups, crashed, faults, phase, removed>>

\* lines 96-100 and 110: the 'end' callback; without deleteSourceFile it only
\* clears the flag
LegacyEnd(p) ==
    /\ Running /\ program = "legacy"
    /\ job[p] = "running"
    /\ p \in files /\ Dirname(TempPath(p)) \in dirs
    /\ files' = files \cup {TempPath(p)}
    /\ log' = log \cup {<<p, "end">>} \cup (IF deleteSourceFile THEN {} ELSE {<<p, "resolved">>})
    /\ IF deleteSourceFile
       THEN /\ job' = [job EXCEPT ![p] = "copy"]
            /\ UNCHANGED working
       ELSE /\ job' = [job EXCEPT ![p] = "none"]
            /\ working' = FALSE
    /\ UNCHANGED <<program, deleteSourceFile, deleteMiscFiles, videoSkipReencode,
                   folderCleanDepth, media, dirs, handler, queue, processing,
                   cleanups, crashed, faults, phase, removed>>

\* lines 112-115: the 'error' callback
LegacyError(p) ==
    /\ Running /\ program = "legacy"
    /\ job[p] = "running"
    /\ working' = FALSE
    /\ job' = [job EXCEPT ![p] = "none"]
    /\ UNCHANGED <<program, deleteSourceFile, deleteMiscFiles, videoSkipReencode,
                   folderCleanDepth, media, dirs, files, handler, queue, processing,
                   cleanups, log, crashed, faults, phase, removed>>

\* lines 105-110: the catch and the end of the callback both clear the flag
LegacyFinish(p, l) ==
    /\ job' = [job EXCEPT ![p] = "none"]
    /\ working' = FALSE
    /\ log' = l \cup {<<p, "resolved">>}

\* line 100
LegacyEndCopy(p) ==
    /\ Running /\ program = "legacy"
    /\ job[p] = "copy"
    /\ \/ /\ TempPath(p) \in files
          /\ files' = files \cup {NewPath(p)}
          /\ job' = [job EXCEPT ![p] = "unlinkTemp"]
          /\ log' = log \cup {<<p, "jobCopy">>}
          /\ UNCHANGED <<faults, working>>
       \/ /\ TempPath(p) \notin files \/ faults < MaxFaults
          /\ faults' = IF TempPath(p) \in files THEN faults + 1 ELSE faults
          /\ LegacyFinish(p, log \cup {<<p, "jobCopyFailed">>})
          /\ UNCHANGED files
    /\ UNCHANGED <<program, deleteSourceFile, deleteMiscFiles, videoSkipReencode,
                   folderCleanDepth, media, dirs, handler, queue, processing,
                   cleanups, crashed, phase, removed>>

\* line 101
LegacyEndUnlinkTemp(p) ==
    /\ Running /\ program = "legacy"
    /\ job[p] = "unlinkTemp"
    /\ \/ /\ TempPath(p) \in files
          /\ files' = files \ {TempPath(p)}
          /\ job' = [job EXCEPT ![p] = "unlinkSource"]
          /\ log' = log \cup {<<p, "jobUnlinkTemp">>}
          /\ UNCHANGED <<faults, working>>
       \/ /\ TempPath(p) \notin files \/ faults < MaxFaults
          /\ faults' = IF TempPath(p) \in files THEN faults + 1 ELSE faults
          /\ LegacyFinish(p, log \cup {<<p, "jobUnlinkTempFailed">>})
          /\ UNCHANGED files
    /\ UNCHANGED <<program, deleteSourceFile, deleteMiscFiles, videoSkipReencode,
                   folderCleanDepth, media, dirs, handler, queue, processing,
                   cleanups, crashed, phase, removed>>

\* line 103
LegacyEndUnlinkSource(p) ==
    /\ Running /\ program = "legacy"
    /\ job[p] = "unlinkSource"
    /\ \/ /\ p \in files
          /\ files' = files \ {p}
          /\ LegacyFinish(p, log \cup {<<p, "jobUnlinkSource">>})
          /\ UNCHANGED faults
       \/ /\ p \notin files \/ faults < MaxFaults
          /\ faults' = IF p \in files THEN faults + 1 ELSE faults
          /\ LegacyFinish(p, log \cup {<<p, "jobUnlinkSourceFailed">>})
          /\ UNCHANGED files
    /\ UNCHANGED <<program, deleteSourceFile, deleteMiscFiles, videoSkipReencode,
                   folderCleanDepth, media, dirs, handler, queue, processing,
                   cleanups, crashed, phase, removed>>

(***************************************************************************)
(* The daemon.                                                              *)
(***************************************************************************)
BaseDirs == {WatchDir, TempDir, CompleteDir}

Init ==
    /\ phase = "daemon"
    /\ program \in {"index", "legacy"}
    /\ deleteSourceFile \in BOOLEAN
    /\ deleteMiscFiles \in (IF program = "legacy" THEN BOOLEAN ELSE {TRUE})
    /\ videoSkipReencode \in (IF program = "index" THEN BOOLEAN ELSE {FALSE})
    /\ folderCleanDepth = 1
    /\ media \in {m \in [Paths -> MediaKinds] :
                    \A p \in Paths : (program = "legacy" \/ p # V1) => m[p] = Plain}
    /\ dirs = BaseDirs \cup {Dirname(p) : p \in Paths}
    /\ files = Paths
    /\ handler = [p \in Paths |-> "none"]
    /\ queue = <<>>
    /\ processing = FALSE
    /\ working = FALSE
    /\ job = [p \in Paths |-> "none"]
    /\ cleanups = IF program = "index" THEN 1 ELSE 0
    /\ log = {}
    /\ crashed = FALSE
    /\ faults = 0
    /\ removed = <<>>

Next ==
    \/ \E p \in Paths :
         \/ HandleFileAdd(p)
         \/ HandleDetectSample(p)
         \/ HandleIsTargetCodec(p)
         \/ HandleCopy(p)
         \/ HandleUnlink(p)
         \/ ProcessFileMkdirNew(p)
         \/ ProcessFileMkdirTemp(p)
         \/ EncodeEnd(p)
         \/ EncodeError(p)
         \/ EndCopy(p)
         \/ EndUnlinkTemp(p)
         \/ EndUnlinkSource(p)
         \/ ProcessQueueResume(p)
         \/ LegacyAdd(p)
         \/ LegacyMkdirNew(p)
         \/ LegacyMkdirTemp(p)
         \/ LegacyCopy(p)
         \/ LegacyUnlink(p)
         \/ LegacyEnd(p)
         \/ LegacyError(p)
         \/ LegacyEndCopy(p)
         \/ LegacyEndUnlinkTemp(p)
         \/ LegacyEndUnlinkSource(p)
    \/ CleanupPass
    \/ LegacyTick

Spec == Init /\ [][Next]_vars

(***************************************************************************)
(* Properties of the daemon.                                                *)
(***************************************************************************)
Has(p, e) == <<p, e>> \in log

\* a path handleFileAdd treats as a video
IsVideoPath(p) == ~isWorkFile(p) /\ isVideoFile(ToLowerCase(Extname(p)))

\* an encode job of p is in progress: processFile has been called and has not
\* settled (index.js), the encoder or its 'end' callback is running (part_000)
Active(p) == job[p] \notin {"none", "resumed"}

\* C1: at most one encode job is active in every reachable state.
C1_SingleFlight ==
    Cardinality({p \in Paths : Active(p)}) <= 1

\* C1's case: the encoder runs for one path while another waits in the queue
C1_Witness ==
    \E p \in Paths : job[p] = "running" /\ queue # <<>>

\* C2: when the encode job of P ends with an error, P is appended to the tail
\* of the queue, where it then stands exactly once, and the rest of the queue
\* is as it was.
C2_RetryRequeues ==
    [][\A p \in Paths :
         (EncodeError(p) \/ LegacyError(p))
            => /\ queue' = Append(queue, p)
               /\ \A i \in 1..Len(queue) : queue[i] # p]_vars

\* C3: a path whose metadata probe failed is not enqueued, and its file is
\* neither moved nor deleted.
C3_ProbeFailureAborts ==
    \A p \in Paths :
        (Has(p, "probeSampleFailed") \/ Has(p, "probeCodecFailed"))
            => /\ ~Has(p, "enqueue")
               /\ ~Has(p, "copy") /\ ~Has(p, "unlink")
               /\ p \in files /\ NewPath(p) \notin files

\* the number of ffprobe calls handleFileAdd has made for p
Probes(p) == Cardinality({e \in {"probeSample", "probeCodec"} : Has(p, e)})

\* C4 as stated: handleFileAdd probes every video path exactly once (here: every
\* one whose destination mkdir succeeded), before any enqueue, skip or move
\* decision.
C4_ProbeExactlyOnce ==
    \A p \in Paths :
        (program = "index" /\ IsVideoPath(p))
            => /\ (handler[p] = "done" /\ Has(p, "mkdir")) => Probes(p) = 1
               /\ (Has(p, "sample") \/ Has(p, "enqueue") \/ Has(p, "target"))
                      => Has(p, "probeSample")

\* C4 as amended: once the destination mkdir has succeeded, handleFileAdd
\* probes a video path once for detectSample and, unless that call said
\* sample or codec-skip is off, once more for isTargetCodec; every enqueue,
\* skip or move decision comes after the probes it depends on; when the mkdir
\* fails there is no probe at all.
C4_ProbeBeforeDecision ==
    \A p \in Paths :
        (program = "index" /\ IsVideoPath(p))
            => /\ ( Has(p, "sample") \/ Has(p, "enqueue") \/ Has(p, "target")
                    \/ Has(p, "copy") \/ Has(p, "unlink") \/ Has(p, "probeCodec") )
                      => Has(p, "probeSample")
               /\ ((Has(p, "enqueue") \/ Has(p, "copy")) /\ videoSkipReencode)
                      => Has(p, "probeCodec")
               /\ Has(p, "probeCodec") => (videoSkipReencode /\ ~Has(p, "sample"))
               /\ Has(p, "mkdirFailed") => Probes(p) = 0
               /\ (handler[p] = "done" /\ Has(p, "mkdir"))
                      => Probes(p) = IF Has(p, "sample") \/ ~videoSkipReencode
                                     THEN 1 ELSE 2

\* C4's case: a video was probed twice and then enqueued
C4_Witness ==
    \E p \in Paths :
        /\ program = "index" /\ IsVideoPath(p)
        /\ handler[p] = "done"
        /\ Has(p, "probeSample") /\ Has(p, "probeCodec") /\ Has(p, "enqueue")

\* C5: the 'add' handler of a work file changes nothing on the file system
\* and enqueues nothing.
C5_WorkFileUntouched ==
    \A p \in Paths :
        isWorkFile(p)
            => /\ \A e \in {"mkdir", "mkdirTemp", "copy", "unlink", "enqueue"} :
                     ~Has(p, e)
               /\ p \in files /\ NewPath(p) \notin files

\* C6: after a successful encode the runner copies the output to the final
\* path, then deletes the temp output, then deletes the source iff
\* delete-source is on; the output is relocated whatever that flag is, and the
\* source is deleted only after the copy.
C6_RelocateAfterSuccess ==
    \A p \in Paths :
        /\ Has(p, "jobUnlinkTemp") => Has(p, "jobCopy")
        /\ Has(p, "jobUnlinkSource")
              => (Has(p, "jobCopy") /\ Has(p, "jobUnlinkTemp") /\ deleteSourceFile)
        /\ (Has(p, "end") /\ Has(p, "resolved") /\ faults = 0)
              => /\ Has(p, "jobCopy") /\ Has(p, "jobUnlinkTemp")
                 /\ NewPath(p) \in files /\ TempPath(p) \notin files
                 /\ deleteSourceFile <=> Has(p, "jobUnlinkSource")

\* p has been moved to the completed root by handleFileAdd
Moved(p) == NewPath(p) \in files /\ p \notin files

\* p has never been in the queue or in an encode job
NeverQueued(p) ==
    /\ ~Has(p, "enqueue") /\ ~Has(p, "dispatch")
    /\ job[p] = "none"
    /\ \A i \in 1..Len(queue) : queue[i] # p

\* the probe of p reports a video stream in the configured target codec
ReportsTargetCodec(p) ==
    media[p].ok /\ media[p].video /\ media[p].codec = VideoCodec

\* C7 as stated: with codec-skip on, a video whose probe reports the target
\* codec is copied to its final path, its original is deleted, and it is never
\* enqueued (no I/O failure injected).
C7_CodecSkipMoves ==
    \A p \in Paths :
        ( /\ program = "index" /\ IsVideoPath(p) /\ videoSkipReencode
          /\ ReportsTargetCodec(p) /\ handler[p] = "done" /\ faults = 0 )
            => (Moved(p) /\ NeverQueued(p))

\* C7 as amended: with codec-skip on, a video that detectSample does not take
\* for a sample and whose probe reports the target codec is copied to its
\* final path and its original deleted (no I/O failure injected); and a path
\* for which isTargetCodec answered true is never enqueued, so never
\* dispatched, whatever fails afterwards.
C7_CodecSkipUnlessSample ==
    \A p \in Paths :
        (program = "index" /\ IsVideoPath(p))
            => /\ ( /\ videoSkipReencode /\ ReportsTargetCodec(p)
                    /\ ~detectSample(media[p])
                    /\ handler[p] = "done" /\ faults = 0 )
                      => (Has(p, "target") /\ Moved(p) /\ NeverQueued(p))
               /\ Has(p, "target") => (videoSkipReencode /\ NeverQueued(p))
               /\ (Has(p, "target") /\ handler[p] = "done"
                     /\ ~Has(p, "copyFailed") /\ ~Has(p, "unlinkFailed"))
                      => Moved(p)

\* C7's case: isTargetCodec answered true and the file has been moved
C7_Witness ==
    \E p \in Paths :
        /\ program = "index" /\ videoSkipReencode
        /\ Has(p, "target") /\ handler[p] = "done" /\ Moved(p)

\* C10: no failure of a probe, mkdir, copy, delete, encode job or reconcile
\* step leaves the process with an exception or rejection that escaped a
\* callback.
C10_NoFailureIsFatal == ~crashed

\* the step starts the encode job of p
Dispatched(p) == ~Active(p) /\ Active(p)'

\* C11: every dispatch takes the path at the head of the queue (or the path
\* just appended to an empty queue), and every other change of the queue is
\* an append at its tail: paths start in the order they were appended, a
\* failed path going back to the tail.
C11_FifoDispatch ==
    [][ /\ \A p \in Paths :
             Dispatched(p)
                => \/ /\ queue # <<>>
                      /\ p = Head(queue)
                      /\ queue' = Tail(queue)
                   \/ /\ queue = <<>> /\ queue' = <<>>
                      /\ handler[p] # "done" /\ handler'[p] = "done"
        /\ (\A p \in Paths : ~Dispatched(p))
              => \/ queue' = queue
                 \/ \E x \in Paths : queue' = Append(queue, x) ]_vars

\* C11's case: of two enqueued paths the first has been dispatched and has
\* settled, and the second, which waited in the queue, is now dispatched
C11_Witness ==
    \E a, b \in Paths :
        /\ a # b /\ program = "index"
        /\ Has(a, "enqueue") /\ Has(b, "enqueue")
        /\ Has(a, "dispatch") /\ Has(a, "resolved") /\ job[a] = "none"
        /\ Has(b, "dispatch") /\ Active(b)

\* the step settles the encode job of p: its promise resolves or rejects
\* (index.js), its terminal callback returns (part_000)
Settled(p) == Active(p) /\ ~Active(p)'

\* C12: every step in which a started encode job settles, by success or by
\* failure, starts a cleanup() pass over the watch and scratch roots.
C12_TerminalTriggersCleanup ==
    [][\A p \in Paths :
         (Has(p, "run") /\ Settled(p)) => cleanups' = cleanups + 1]_vars

\* C13: once the encoder has ended successfully for p, p is never in the queue
\* and never at a job step that precedes the encoder's end again, whatever
\* fails in the relocation; and a relocation step that has succeeded stays
\* done: the copy remains at the final path, the temp output and the source
\* remain deleted.
C13_NoRollbackNoRequeue ==
    \A p \in Paths :
        /\ Has(p, "end")
              => /\ \A i \in 1..Len(queue) : queue[i] # p
                 /\ job[p] \notin {"mkdirNew", "mkdirTemp", "running"}
        /\ Has(p, "jobCopy") => NewPath(p) \in files
        /\ Has(p, "jobUnlinkTemp") => TempPath(p) \notin files
        /\ Has(p, "jobUnlinkSource") => p \notin files

\* C13's case: the copy succeeded, the delete of the temp output failed, the
\* job has settled and the drain loop has gone on
C13_Witness ==
    \E p \in Paths :
        /\ program = "index"
        /\ Has(p, "jobCopy") /\ Has(p, "jobUnlinkTempFailed")
        /\ Has(p, "resolved") /\ job[p] = "none"
        /\ NewPath(p) \in files /\ TempPath(p) \in files

\* C14: a video for which the probe of detectSample answered a duration below
\* the sample threshold is classified as a sample and left alone: it is never
\* probed for its codec, never enqueued or dispatched, never copied to the
\* completed root and never deleted.
C14_SampleSkipped ==
    \A p \in Paths :
        ( /\ program = "index" /\ IsVideoPath(p)
          /\ Has(p, "probeSample") /\ ~Has(p, "probeSampleFailed")
          /\ media[p].duration < VideoSampleSeconds )
            => /\ Has(p, "sample") /\ handler[p] = "done"
               /\ ~Has(p, "probeCodec")
               /\ NeverQueued(p)
               /\ ~Has(p, "copy") /\ ~Has(p, "unlink")
               /\ p \in files /\ NewPath(p) \notin files

\* C14's case: a video one second short of the threshold has been probed and
\* skipped while another path has been enqueued
C14_Witness ==
    \E p, q \in Paths :
        /\ program = "index" /\ IsVideoPath(p)
        /\ media[p].ok /\ media[p].duration = VideoSampleSeconds - 1
        /\ Has(p, "sample") /\ handler[p] = "done" /\ p \in files
        /\ q # p /\ Has(q, "enqueue")

\* the lower-cased extension of p is one of ext and p is not a work file
HasExtension(p, ext) ==
    /\ ToLowerCase(Extname(p)) \in ext
    /\ ~Includes(p, <<"/", ".">>) /\ ~Includes(p, <<".", "queued">>)
    /\ ~Includes(p, <<"_UNPACK_">>)

\* C15: only paths with a video extension are ever probed, enqueued or
\* dispatched; a subtitle path is never probed, enqueued or dispatched, its
\* original is deleted only after the copy to the final path, and when no
\* step of its handler fails it ends up moved.
C15_RoutingExclusive ==
    \A p \in Paths :
        program = "index"
          => /\ ( Has(p, "probeSample") \/ Has(p, "probeCodec")
                  \/ Has(p, "enqueue") \/ Has(p, "dispatch") \/ job[p] # "none" )
                    => HasExtension(p, videoExtensions)
             /\ HasExtension(p, subtitleExtensions)
                    => /\ Probes(p) = 0 /\ NeverQueued(p)
                       /\ Has(p, "unlink") => Has(p, "copy")
                       /\ ( /\ handler[p] = "done"
                            /\ ~Has(p, "mkdirFailed") /\ ~Has(p, "copyFailed")
                            /\ ~Has(p, "unlinkFailed") )
                              => (Has(p, "copy") /\ Has(p, "unlink") /\ Moved(p))

\* C15's case: a subtitle has been moved while a video has been probed and
\* enqueued
C15_Witness ==
    \E p, q \in Paths :
        /\ program = "index"
        /\ HasExtension(p, subtitleExtensions)
        /\ handler[p] = "done" /\ Moved(p)
        /\ Has(q, "probeSample") /\ Has(q, "enqueue")

\* C16: when the drain loop goes on after the 'end' handler of a job, to
\* dispatch the next path or to clear the flag, no cleanup() pass is still
\* pending: the pass that the handler started has completed.
C16_CleanupBeforeRelease ==
    [][\A p \in Paths :
         (ProcessQueueResume(p) /\ Has(p, "resolved")) => cleanups = 0]_vars

\* the single-flight gate: `processing` in index.js, `working` in part_000
GateSet == IF program = "index" THEN processing ELSE working

\* C17 as stated: the step that follows a job's terminal callback (the drain
\* loop resuming in index.js, the end of the callback in part_000) leaves the
\* gate cleared.
C17_GateClearedAtTerminal ==
    [][\A p \in Paths :
         (ProcessQueueResume(p) \/ (program = "legacy" /\ Settled(p)))
            => ~GateSet']_vars

\* C17 as amended: the gate is set only while a job is in progress, so with no
\* job in progress it is clear; part_000 clears it at the end of every
\* terminal callback; in index.js the drain loop, once a job has settled,
\* clears it when the queue is empty and otherwise keeps it set and
\* dispatches the head of the queue itself.
C17_GateNeverStuck ==
    /\ [](GateSet => \E p \in Paths : job[p] # "none")
    /\ [][\A p \in Paths :
            /\ (program = "legacy" /\ Settled(p)) => ~working'
            /\ ProcessQueueResume(p)
                  => IF queue = <<>>
                     THEN ~processing' /\ \A x \in Paths : job'[x] = "none"
                     ELSE /\ processing'
                          /\ \E h \in Paths : h = Head(queue) /\ Dispatched(h)]_vars

\* C17's case: in index.js a job has settled while another path was queued;
\* the flag was never cleared and the queued path is now being encoded
C17_Witness ==
    \E a, b \in Paths :
        /\ program = "index" /\ a # b
        /\ Has(a, "resolved") /\ job[a] = "none"
        /\ job[b] = "running" /\ processing /\ queue = <<>>

\* the next step of the 'add' callback of p
HandlerStep(p) ==
    HandleDetectSample(p) \/ HandleIsTargetCodec(p) \/ HandleCopy(p) \/ HandleUnlink(p)

\* C19: an 'add' callback that has started can always take its next step,
\* whatever the state of the encode job; and when it enqueues its path while
\* the job of another path is in progress, that step appends the path to the
\* queue and ends the callback, leaving the job and the flag as they are.
C19_IngestNeverBlocks ==
    /\ [](\A p \in Paths :
            (program = "index" /\ Running /\ handler[p] \notin {"none", "done"})
               => ENABLED HandlerStep(p))
    /\ [][\A p \in Paths :
            ( /\ HandlerStep(p)
              /\ ~Has(p, "enqueue") /\ Has(p, "enqueue")'
              /\ \E q \in Paths \ {p} : job[q] # "none" )
               => /\ queue' = Append(queue, p)
                  /\ handler'[p] = "done"
                  /\ job' = job /\ processing' = processing]_vars

\* C19's case: the encoder runs for one path, and the 'add' callback of
\* another video has completed its probe and left its path in the queue
C19_Witness ==
    \E p, q \in Paths :
        /\ program = "index" /\ p # q
        /\ job[q] = "running"
        /\ handler[p] = "done" /\ Has(p, "probeSample") /\ Has(p, "enqueue")
        /\ queue = <<p>>

\* C20: in index.js, whenever the queue is not empty the processing flag is
\* set and a drain loop is active: some path has a job that is in progress or
\* has just settled with the loop about to go on.
C20_NoLostWakeup ==
    (program = "index" /\ queue # <<>>)
       => (processing /\ \E p \in Paths : job[p] # "none")

\* C20's case: a job has failed and pushed its path back behind a path that
\* was enqueued while it ran; the drain loop is about to go on
C20_Witness ==
    \E p, q \in Paths :
        /\ program = "index" /\ p # q
        /\ queue = <<q, p>>
        /\ Has(p, "run") /\ job[p] = "resumed"
        /\ processing

\* the scratch output directory of the job of p
ScratchDir(p) == Dirname(TempPath(p))

\* C21: while the job of p is between the creation of its scratch output
\* directory and the encoder's terminal event, that directory exists.
C21_ScratchDirKept ==
    \A p \in Paths :
        (program = "index" /\ job[p] = "running") => ScratchDir(p) \in dirs

(***************************************************************************)
(* index.js with its scheduling: an awaited mkdir, copy or unlink            *)
(* completes, a settled promise resumes the drain loop, and every encoder    *)
(* that was started fires 'end' or 'error'.  Which of the two it fires is    *)
(* left open, so a path may fail on every attempt.                           *)
(***************************************************************************)
InitLive ==
    /\ Init
    /\ program = "index"
    /\ deleteSourceFile
    /\ \A p \in Paths : media[p] = Plain

\* the next step of the encode job of p
JobStep(p) ==
    \/ ProcessFileMkdirNew(p)
    \/ ProcessFileMkdirTemp(p)
    \/ EncodeEnd(p)
    \/ EncodeError(p)
    \/ EndCopy(p)
    \/ EndUnlinkTemp(p)
    \/ EndUnlinkSource(p)
    \/ ProcessQueueResume(p)

NextLive ==
    \/ \E p \in Paths :
         \/ HandleFileAdd(p)
         \/ HandleDetectSample(p)
         \/ HandleIsTargetCodec(p)
         \/ HandleCopy(p)
         \/ HandleUnlink(p)
         \/ JobStep(p)
    \/ CleanupPass

SpecLive ==
    /\ InitLive
    /\ [][NextLive]_vars
    /\ \A p \in Paths : WF_vars(JobStep(p))

\* p waits in the queue
InQueue(p) == \E i \in 1..Len(queue) : queue[i] = p

\* C22: every path that waits in the queue is eventually dispatched, also in
\* the runs where another path fails on every attempt and is pushed back
\* without end.
C22_NoStarvation ==
    \A p \in Paths : InQueue(p) ~> Active(p)

\* C22's case: a path has been dispatched while a path whose encoder failed
\* waits behind it in the queue for its next attempt
C22_Witness ==
    \E p, q \in Paths :
        /\ p # q
        /\ Has(p, "dispatch") /\ Active(p)
        /\ Has(q, "run") /\ ~Has(q, "end")
        /\ queue = <<q>>

(***************************************************************************)
(* Reconcile runs: a directory tree is built under the watch root, then     *)
(* cleanup() runs twice on it with nothing else touching the file system.   *)
(***************************************************************************)
DirNames == {"a", "show"}

RECURSIVE TreeLevel(_)
TreeLevel(k) ==
    IF k = 0 THEN {WatchDir}
    ELSE {d \o <<"/", n>> : d \in TreeLevel(k - 1), n \in DirNames}

TreeUniverse == UNION {TreeLevel(k) : k \in 1..MaxTreeDepth}

InitReconcile ==
    /\ phase = "build"
    /\ program = "index"
    /\ deleteSourceFile = TRUE
    /\ deleteMiscFiles = TRUE
    /\ videoSkipReencode = TRUE
    /\ folderCleanDepth \in -1..MaxCleanDepth
    /\ media = [p \in Paths |-> Plain]
    /\ dirs = BaseDirs
    /\ files = {}
    /\ handler = [p \in Paths |-> "none"]
    /\ queue = <<>>
    /\ processing = FALSE
    /\ working = FALSE
    /\ job = [p \in Paths |-> "none"]
    /\ cleanups = 0
    /\ log = {}
    /\ crashed = FALSE
    /\ faults = 0
    /\ removed = <<>>

\* the environment creates a directory under the watch root
TreeMkdir(d) ==
    /\ phase = "build"
    /\ d \notin dirs /\ Dirname(d) \in dirs
    /\ Cardinality(dirs \ BaseDirs) < MaxDirs
    /\ dirs' = dirs \cup {d}
    /\ UNCHANGED <<program, deleteSourceFile, deleteMiscFiles, videoSkipReencode,
                   folderCleanDepth, media, files, handler, queue, processing,
                   working, job, cleanups, log, crashed, faults, phase, removed>>

\* the environment creates a file in a directory of the watch tree
TreeTouch(d) ==
    /\ phase = "build"
    /\ d \in dirs
    /\ d \o <<"/", "f">> \notin files
    /\ Cardinality(files) < MaxTreeFiles
    /\ files' = files \cup {d \o <<"/", "f">>}
    /\ UNCHANGED <<program, deleteSourceFile, deleteMiscFiles, videoSkipReencode,
                   folderCleanDepth, media, dirs, handler, queue, processing,
                   working, job, cleanups, log, crashed, faults, phase, removed>>

\* one whole run of cleanup() (index.js 144-149)
Reconcile ==
    /\ phase \in {"build", "reconcile"}
    /\ Len(removed) < 2
    /\ phase' = "reconcile"
    /\ dirs' = cleanup(dirs, files, folderCleanDepth)
    /\ removed' = Append(removed, dirs \ dirs')
    /\ UNCHANGED <<program, deleteSourceFile, deleteMiscFiles, videoSkipReencode,
                   folderCleanDepth, media, files, handler, queue, processing,
                   working, job, cleanups, log, crashed, faults>>

NextReconcile ==
    \/ \E d \in TreeUniverse : TreeMkdir(d)
    \/ \E d \in TreeUniverse \cup {WatchDir} : TreeTouch(d)
    \/ Reconcile

SpecReconcile == InitReconcile /\ [][NextReconcile]_vars

\* the directories that existed before run i
DirsBefore(i) == dirs \cup UNION {removed[k] : k \in i..Len(removed)}

RootOf(d) == SubSeq(d, 1, 2)

Show == WatchDir \o <<"/", "show">>

\* C8: a second cleanup() run right after a first removes no directory.
C8_ReconcileIdempotent ==
    Len(removed) = 2 => removed[2] = {}

\* every directory a run removed was at depth >= clean-depth (the root only
\* when clean-depth is 0) and held no entry
RemovalsWithinBound ==
    \A i \in 1..Len(removed) : \A d \in removed[i] :
        /\ folderCleanDepth >= 0
        /\ Depth(RootOf(d), d) >= folderCleanDepth
        /\ (d \in BaseDirs => folderCleanDepth = 0)
        /\ Entries(DirsBefore(i + 1), files, d) = {}

\* C9: a run removes only directories at depth >= clean-depth (the root only
\* when clean-depth is 0) that hold no entry; with clean-depth 1, a run that
\* finds /watch/show empty removes it and keeps /watch.
C9_ReconcileDepthBound ==
    /\ RemovalsWithinBound
    /\ ( /\ Len(removed) >= 1
         /\ folderCleanDepth = 1
         /\ Show \in DirsBefore(1)
         /\ Entries(DirsBefore(1), files, Show) = {} )
       => (Show \in removed[1] /\ WatchDir \in dirs)

\* C18: when a run has removed a subdirectory, so that inspecting it at line
\* 76 fails, the run has still processed the siblings of that subdirectory:
\* every sibling that was empty before the run has been removed by it too.
C18_SiblingsStillProcessed ==
    Len(removed) >= 1
       => \A d \in removed[1] : \A s \in DirsBefore(1) :
             ( /\ s # d /\ d \notin BaseDirs /\ s \notin BaseDirs
               /\ Dirname(s) = Dirname(d)
               /\ Entries(DirsBefore(1), files, s) = {} )
                => s \in removed[1]

====
